---- MODULE Spec2Model ----
(***************************************************************************)
(* Financial document analyzer: the asynchronous analysis pipeline         *)
(* (src/main.py, src/workers/tasks.py) and the Insight Extractor           *)
(* (src/services/analysis_service.py).                                     *)
(*                                                                         *)
(* Text is modelled as a sequence of tokens.  A token is a word, a         *)
(* whitespace character (" ", "\n"), a bracket, or a JSON member.          *)
(***************************************************************************)
EXTENDS Integers, Sequences, FiniteSets, TLC

\* ------------------------------------------------------------------ bounds
\* Number of job ids (uuid4 values) a run may draw.
MaxJobs == 2

\* _extract_pdf_text calls that run in one process at a time.
MaxExtractions == 2

\* max_attempts of poll_for_results (60 in the dashboard).
MaxAttempts == 3

\* ------------------------------------------------------------ text helpers
Whitespace == {" ", "\n"}

\* str.strip(): drop leading and trailing whitespace tokens.
RECURSIVE LStrip(_)
LStrip(s) ==
    IF s # <<>> /\ Head(s) \in Whitespace THEN LStrip(Tail(s)) ELSE s

RECURSIVE RStrip(_)
RStrip(s) ==
    IF s # <<>> /\ s[Len(s)] \in Whitespace
    THEN RStrip(SubSeq(s, 1, Len(s) - 1))
    ELSE s

Strip(s) == RStrip(LStrip(s))

\* len() of a text in characters: the token "LONG" stands for a run of 100
\* characters, every other token for one character.
TokLen(t) == IF t = "LONG" THEN 100 ELSE 1

RECURSIVE StrLen(_)
StrLen(s) == IF s = <<>> THEN 0 ELSE TokLen(Head(s)) + StrLen(Tail(s))

\* str.lower() on file-name tokens.
LowerTok(t) ==
    CASE t = ".PDF" -> ".pdf"
      [] t = "Q3" -> "q3"
      [] OTHER -> t

Lower(s) == [i \in 1..Len(s) |-> LowerTok(s[i])]

\* str.title() on file-name tokens.
TitleTok(t) ==
    CASE t = "report" -> "Report"
      [] t = "annual" -> "Annual"
      [] t = "notes" -> "Notes"
      [] t = ".PDF" -> ".Pdf"
      [] t = ".txt" -> ".Txt"
      [] OTHER -> t

Title(s) == [i \in 1..Len(s) |-> TitleTok(s[i])]

\* str.replace(old, new) for a one-token pattern; new = <<>> deletes it.
RECURSIVE Replace(_, _, _)
Replace(s, old, new) ==
    IF s = <<>> THEN <<>>
    ELSE (IF Head(s) = old THEN new ELSE <<Head(s)>>) \o Replace(Tail(s), old, new)

\* file.filename.lower().endswith('.pdf')
EndsWithPdf(name) == name # <<>> /\ Lower(name)[Len(name)] = ".pdf"

\* not file.filename or not file.filename.lower().endswith('.pdf')
RejectedFilename(name) == name = <<>> \/ ~EndsWithPdf(name)

\* ------------------------------------------------- model output and JSON
\* A JSON member token stands for one "key": value pair of an object.
PairTokens == {"rev", "ni"}

PairKey(t) == IF t = "rev" THEN "revenue" ELSE "net_income"

PairValue(t) == IF t = "rev" THEN "120" ELSE "15"

Absent == "absent"

MetricKeys == {"revenue", "net_income"}

\* The dict {} and dict update, over the keys the pipeline reads.
EmptyMetrics == [k \in MetricKeys |-> Absent]

\* A JSON element token stands for one scalar or object element of an array.
ItemTokens == {"recBuy", "riskFin", "ins"}

ItemValue(t) ==
    CASE t = "recBuy" ->
            [kind |-> "recommendation", action |-> "buy", asset |-> "stock",
             rationale |-> "growth", risk_level |-> "Low", confidence |-> "0.8"]
      [] t = "riskFin" ->
            [kind |-> "risk", category |-> "Financial", level |-> "High",
             description |-> "leverage", mitigation |-> "deleverage"]
      [] OTHER -> [kind |-> "string", text |-> <<t>>]

NoWs(s) == SelectSeq(s, LAMBDA t : t \notin Whitespace)

ParseFail == [ok |-> FALSE, val |-> <<>>, rest |-> <<>>]

RECURSIVE ParseMembers(_)
ParseMembers(s) ==
    IF s = <<>> THEN ParseFail
    ELSE IF Head(s) = "}" THEN [ok |-> TRUE, val |-> EmptyMetrics, rest |-> Tail(s)]
    ELSE IF Head(s) \in PairTokens
         THEN LET r == ParseMembers(Tail(s))
              IN  IF ~r.ok THEN ParseFail
                  ELSE [ok |-> TRUE,
                        val |-> IF r.val[PairKey(Head(s))] = Absent
                                THEN [r.val EXCEPT ![PairKey(Head(s))] = PairValue(Head(s))]
                                ELSE r.val,
                        rest |-> r.rest]
         ELSE ParseFail

RECURSIVE ParseValue(_)
RECURSIVE ParseItems(_)
ParseValue(s) ==
    IF s = <<>> THEN ParseFail
    ELSE IF Head(s) = "[" THEN
            LET r == ParseItems(Tail(s))
            IN  IF r.ok THEN [ok |-> TRUE, val |-> [kind |-> "array", items |-> r.val],
                              rest |-> r.rest]
                ELSE ParseFail
    ELSE IF Head(s) = "{" THEN
            LET r == ParseMembers(Tail(s))
            IN  IF r.ok THEN [ok |-> TRUE, val |-> [kind |-> "object", members |-> r.val],
                              rest |-> r.rest]
                ELSE ParseFail
    ELSE IF Head(s) \in ItemTokens THEN
            [ok |-> TRUE, val |-> ItemValue(Head(s)), rest |-> Tail(s)]
    ELSE ParseFail

ParseItems(s) ==
    IF s = <<>> THEN ParseFail
    ELSE IF Head(s) = "]" THEN [ok |-> TRUE, val |-> <<>>, rest |-> Tail(s)]
    ELSE LET v == ParseValue(s)
         IN  IF ~v.ok THEN ParseFail
             ELSE LET r == ParseItems(v.rest)
                  IN  IF ~r.ok THEN ParseFail
                      ELSE [ok |-> TRUE, val |-> <<v.val>> \o r.val, rest |-> r.rest]

\* json.loads(text): ok = FALSE stands for JSONDecodeError.  The value of an
\* object is its member mapping, the value of an array its element sequence.
json_loads(s) ==
    LET v == ParseValue(NoWs(s))
    IN  IF v.ok /\ v.rest = <<>>
        THEN [ok |-> TRUE,
              val |-> IF v.val.kind = "array" THEN v.val.items ELSE v.val.members]
        ELSE [ok |-> FALSE, val |-> <<>>]

Indices(s, toks) == {i \in 1..Len(s) : s[i] \in toks}

SetMin(S) == CHOOSE x \in S : \A y \in S : x <= y

SetMax(S) == CHOOSE x \in S : \A y \in S : x >= y

NoMatch == [found |-> FALSE, group |-> <<>>]

\* re.search(r'\{[^{}]*\}', text): the leftmost "{" whose next brace is a "}".
ReSearchObject(s) ==
    LET starts == {i \in Indices(s, {"{"}) :
                      /\ Indices(s, {"{", "}"}) \cap (i+1)..Len(s) # {}
                      /\ s[SetMin(Indices(s, {"{", "}"}) \cap (i+1)..Len(s))] = "}"}
    IN  IF starts = {} THEN NoMatch
        ELSE LET i == SetMin(starts)
                 j == SetMin(Indices(s, {"}"}) \cap (i+1)..Len(s))
             IN  [found |-> TRUE, group |-> SubSeq(s, i, j)]

\* re.search(r'\[.*\]', text, re.DOTALL): greedy, from the first "[" to the
\* last "]" of the text.
ReSearchArray(s) ==
    IF Indices(s, {"["}) = {} \/ Indices(s, {"]"}) = {} THEN NoMatch
    ELSE LET i == SetMin(Indices(s, {"["}))
             j == SetMax(Indices(s, {"]"}))
         IN  IF j > i THEN [found |-> TRUE, group |-> SubSeq(s, i, j)] ELSE NoMatch

\* --------------------------------------------------------- Text Extractor
\* A document is [open, pages]: open = FALSE stands for bytes PdfReader cannot
\* open; a page is [fail, text], fail = TRUE when extract_text() raises and
\* text = <<>> when the page yields no text.
\* PagesText ending at the first page that yields no text.
RECURSIVE PagesText_until_blank(_)
PagesText_until_blank(pages) ==
    IF pages = <<>> \/ Head(pages).text = <<>> THEN <<>>
    ELSE Head(pages).text \o <<"\n">> \o PagesText_until_blank(Tail(pages))

RECURSIVE PagesText(_)
PagesText(pages) ==
    IF pages = <<>> THEN <<>>
    ELSE (IF Head(pages).text # <<>> THEN Head(pages).text \o <<"\n">> ELSE <<>>)
         \o PagesText(Tail(pages))

\* _extract_pdf_text: the transcript, or the exception that leaves it.
_extract_pdf_text(doc) ==
    IF ~doc.open THEN [raised |-> TRUE, error |-> "PdfReadError", text |-> <<>>]
    ELSE IF \E i \in 1..Len(doc.pages) : doc.pages[i].fail
         THEN [raised |-> TRUE, error |-> "PageReadError", text |-> <<>>]
         ELSE [raised |-> FALSE, error |-> "", text |-> PagesText(doc.pages)]

\* ------------------------------------------------------- Insight Extractor
\* A model call answers [err, text]: err = TRUE when generate_content (or
\* reading response.text) raises.
Stages == <<"company", "metrics", "recommendations", "risks", "insights", "query">>

StageSet == {Stages[i] : i \in 1..Len(Stages)}

\* filename.replace('.pdf', '').replace('_', ' ').title()
FilenameCompany(filename) ==
    Title(Replace(Replace(filename, ".pdf", <<>>), "_", <<" ">>))

\* _extract_company_name
_extract_company_name(filename, r) ==
    IF r.err THEN FilenameCompany(filename)
    ELSE LET company_name == Strip(r.text)
         IN  IF StrLen(company_name) < 100 /\ company_name # <<>>
             THEN company_name
             ELSE FilenameCompany(filename)

\* _extract_financial_metrics
_extract_financial_metrics(r) ==
    IF r.err THEN EmptyMetrics
    ELSE LET json_match == ReSearchObject(r.text)
         IN  IF json_match.found /\ json_loads(json_match.group).ok
             THEN json_loads(json_match.group).val
             ELSE EmptyMetrics

FallbackRecommendations ==
    << [kind |-> "recommendation", action |-> "monitor", asset |-> "Company stock",
        rationale |-> "Requires further analysis based on available metrics",
        risk_level |-> "Medium", confidence |-> "0.5"] >>

\* _generate_investment_recommendations
_generate_investment_recommendations(r) ==
    IF r.err THEN FallbackRecommendations
    ELSE LET json_match == ReSearchArray(r.text)
         IN  IF json_match.found /\ json_loads(json_match.group).ok
             THEN json_loads(json_match.group).val
             ELSE FallbackRecommendations

FallbackRisks ==
    << [kind |-> "risk", category |-> "Market Risk", level |-> "Medium",
        description |-> "General market volatility affects all investments",
        mitigation |-> "Diversify portfolio and maintain long-term perspective"] >>

\* _assess_risks answering an empty list where the JSON does not decode.
_assess_risks_empty_on_bad_json(r) ==
    IF r.err THEN FallbackRisks
    ELSE LET json_match == ReSearchArray(r.text)
         IN  IF json_match.found
             THEN IF json_loads(json_match.group).ok
                  THEN json_loads(json_match.group).val
                  ELSE <<>>
             ELSE FallbackRisks

\* _assess_risks
_assess_risks(r) ==
    IF r.err THEN FallbackRisks
    ELSE LET json_match == ReSearchArray(r.text)
         IN  IF json_match.found /\ json_loads(json_match.group).ok
             THEN json_loads(json_match.group).val
             ELSE FallbackRisks

FallbackInsights ==
    << [kind |-> "string", text |-> <<"Market analysis requires additional data">>] >>

\* response.text.split('\n')
RECURSIVE SplitLines(_, _)
SplitLines(s, cur) ==
    IF s = <<>> THEN <<cur>>
    ELSE IF Head(s) = "\n" THEN <<cur>> \o SplitLines(Tail(s), <<>>)
    ELSE SplitLines(Tail(s), Append(cur, Head(s)))

\* [line.strip() for line in response.text.split('\n') if line.strip()]
StrippedLines(s) ==
    LET lines == SplitLines(s, <<>>)
        kept == SelectSeq(lines, LAMBDA l : Strip(l) # <<>>)
    IN  [i \in 1..Len(kept) |-> [kind |-> "string", text |-> Strip(kept[i])]]

FirstN(s, n) == SubSeq(s, 1, IF Len(s) < n THEN Len(s) ELSE n)

\* _get_market_insights
_get_market_insights(r) ==
    IF r.err THEN FallbackInsights
    ELSE LET json_match == ReSearchArray(r.text)
         IN  IF json_match.found
             THEN IF json_loads(json_match.group).ok
                  THEN json_loads(json_match.group).val
                  ELSE FallbackInsights
             ELSE FirstN(StrippedLines(r.text), 5)

\* _generate_summary: the template's four holes.
_generate_summary(metrics, company, query) ==
    [company |-> company,
     revenue |-> IF metrics["revenue"] = Absent THEN "N/A" ELSE metrics["revenue"],
     net_income |-> IF metrics["net_income"] = Absent THEN "N/A" ELSE metrics["net_income"],
     query |-> query]

\* _answer_specific_query
_answer_specific_query(query, r) ==
    IF r.err THEN <<"Unable to provide specific analysis for query:">> \o query
    ELSE Strip(r.text)

NoResult == [kind |-> "none"]

\* StageCalls with the risk assessment called before the metrics are known.
StageCalls_risks_first(text, filename, query, company_name, financial_metrics) ==
    << [stage |-> "extract", text |-> text],
       [stage |-> "company", text |-> text, filename |-> filename],
       [stage |-> "risks", text |-> text, metrics |-> EmptyMetrics],
       [stage |-> "metrics", text |-> text],
       [stage |-> "recommendations", text |-> text, metrics |-> financial_metrics,
        query |-> query],
       [stage |-> "insights", company |-> company_name, text |-> text],
       [stage |-> "summary", metrics |-> financial_metrics, company |-> company_name,
        query |-> query],
       [stage |-> "query", text |-> text, query |-> query, metrics |-> financial_metrics] >>

\* The stages analyze_document runs, in the order of its statements, each
\* with the arguments it is called with (analysis_service.py 29-57); the
\* first entry is the extraction with the text it returned.
StageCalls(text, filename, query, company_name, financial_metrics) ==
    << [stage |-> "extract", text |-> text],
       [stage |-> "company", text |-> text, filename |-> filename],
       [stage |-> "metrics", text |-> text],
       [stage |-> "recommendations", text |-> text, metrics |-> financial_metrics,
        query |-> query],
       [stage |-> "risks", text |-> text, metrics |-> financial_metrics],
       [stage |-> "insights", company |-> company_name, text |-> text],
       [stage |-> "summary", metrics |-> financial_metrics, company |-> company_name,
        query |-> query],
       [stage |-> "query", text |-> text, query |-> query, metrics |-> financial_metrics] >>

\* analyze_document: resp maps each stage to the answer its model call gets.
service_analyze_document(doc, filename, query, resp) ==
    LET ex == _extract_pdf_text(doc)
    IN  IF ex.raised
        THEN [raised |-> TRUE, error |-> ex.error, result |-> NoResult, calls |-> <<>>,
              trace |-> <<>>]
        ELSE LET company_name == _extract_company_name(filename, resp["company"])
                 financial_metrics == _extract_financial_metrics(resp["metrics"])
             IN  [raised |-> FALSE, error |-> "",
                  result |->
                    [kind |-> "result",
                     company_name |-> company_name,
                     financial_metrics |-> financial_metrics,
                     investment_recommendations |->
                         _generate_investment_recommendations(resp["recommendations"]),
                     risk_assessments |-> _assess_risks(resp["risks"]),
                     market_insights |-> _get_market_insights(resp["insights"]),
                     summary |-> _generate_summary(financial_metrics, company_name, query),
                     query_response |-> _answer_specific_query(query, resp["query"])],
                  calls |-> Stages,
                  trace |-> StageCalls(ex.text, filename, query, company_name,
                                       financial_metrics)]

\* ------------------------------------------------------------ the inputs
GoodDoc ==
    [open |-> TRUE,
     pages |-> << [fail |-> FALSE, text |-> <<"Acme", " ", "revenue">>],
                  [fail |-> FALSE, text |-> <<>>] >>]

CorruptDoc == [open |-> FALSE, pages |-> <<>>]

\* A PDF of scanned pages: it opens, and no page yields text.
ScannedDoc ==
    [open |-> TRUE, pages |-> << [fail |-> FALSE, text |-> <<>>] >>]

\* A PDF with a page that yields no text between two pages that do.
GappedDoc ==
    [open |-> TRUE,
     pages |-> << [fail |-> FALSE, text |-> <<"Q3", " ", "report">>],
                  [fail |-> FALSE, text |-> <<>>],
                  [fail |-> FALSE, text |-> <<"net", " ", "income">>] >>]

\* A PDF whose second page makes extract_text raise.
BrokenPageDoc ==
    [open |-> TRUE,
     pages |-> << [fail |-> FALSE, text |-> <<"Acme">>],
                  [fail |-> TRUE, text |-> <<>>] >>]

\* What a client uploads: file name, query and document bytes.
Uploads ==
    { [filename |-> <<"report", ".pdf">>, query |-> <<" ", "growth", " ">>, doc |-> GoodDoc],
      [filename |-> <<"annual", "_", "report", ".PDF">>, query |-> <<"risk">>,
       doc |-> CorruptDoc],
      [filename |-> <<"Q3", ".pdf">>, query |-> <<"risk">>, doc |-> ScannedDoc],
      [filename |-> <<"notes", ".txt">>, query |-> <<"risk">>, doc |-> GoodDoc],
      [filename |-> <<>>, query |-> <<"risk">>, doc |-> GoodDoc] }

Answer(t) == [err |-> FALSE, text |-> t]

ModelError == [err |-> TRUE, text |-> <<>>]

\* The model answers every stage in the requested shape.
AllAnswered ==
    [st \in StageSet |->
        CASE st = "company" -> Answer(<<" ", "Acme", "\n">>)
          [] st = "metrics" -> Answer(<<"json", "{", "rev", "ni", "}">>)
          [] st = "recommendations" -> Answer(<<"[", "recBuy", "]">>)
          [] st = "risks" -> Answer(<<"[", "riskFin", "]">>)
          [] st = "insights" -> Answer(<<"[", "ins", "]">>)
          [] OTHER -> Answer(<<"answer", "\n">>)]

\* Every model call raises.
AllFailed == [st \in StageSet |-> ModelError]

\* The model behaviours the pipeline is run against.
ModelScenarios == {AllAnswered, AllFailed}

\* -------------------------------------------------------------- the state
VARIABLES
    nextId,     \* the next uuid4 value a request draws
    store,      \* Document Store: job id -> bytes of data/doc_<id>.pdf, or NoFile
    rec,        \* Result Store: job id -> row of analysis_results, or NoRec
    queue,      \* the broker's queue of units of work
    task,       \* job id -> the worker's execution of that job's unit of work
    backend,    \* Celery result backend: Celery task id -> [state, info]
    fast,       \* the /analyze-fast request occupying the event loop, or NoFast
    an,         \* one analyze_document call on drawn inputs (SpecAnalyze)
    financial_metrics_table,
                \* the rows of the financial_metrics table
    poll,       \* the dashboard's poll_for_results call, or NoPoll
    extraction  \* the temporary file of one process and the _extract_pdf_text
                \* calls running in it (SpecExtract)

vars ==
    <<nextId, store, rec, queue, task, backend, fast, an, financial_metrics_table, poll,
      extraction>>

Ids == 1..MaxJobs

NoFile == [exists |-> FALSE]

File(doc) == [exists |-> TRUE, doc |-> doc]

NoRec == [status |-> "absent"]

NullText == <<"(null)">>

NoFast == [task_id |-> 0]

NoArgs == [task_id |-> 0]

\* Celery gives a unit of work its own id, drawn apart from the job ids.
CeleryIdOf(id) == MaxJobs + id

BackendKeys == 1..(2 * MaxJobs)

Pending == [state |-> "PENDING", current |-> 0, total |-> 0, status |-> ""]

Progress(n, text) == [state |-> "PROGRESS", current |-> n, total |-> 100, status |-> text]

IdleTask ==
    [pc |-> "idle", args |-> NoArgs, file_content |-> NoFile, result |-> NoResult,
     cause |-> "", calls |-> 0, outcome |-> ""]

NoAnalysis == [state |-> "unused"]

NoPoll == [state |-> "idle"]

NoExtraction == [temp |-> NoFile, th |-> <<>>]

\* AnalysisResult(task_id, filename, query, status): a new row.
NewRecord(filename, query, status) ==
    [status |-> status, filename |-> filename, query |-> query, result |-> NoResult,
     error_message |-> NullText, completed_at |-> FALSE, processing_time |-> FALSE,
     company_name |-> NullText]

\* CompletedRow with the company name left for a later write.
CompletedRow_without_company(r, result) ==
    [r EXCEPT !.result = result, !.status = "completed", !.completed_at = TRUE,
              !.processing_time = TRUE]

\* The assignments before the success commit (tasks.py 59-63, main.py 161-165).
CompletedRow(r, result) ==
    [r EXCEPT !.result = result, !.status = "completed", !.completed_at = TRUE,
              !.processing_time = TRUE, !.company_name = result.company_name]

\* The assignments of the error handlers (tasks.py 89-91, main.py 177-179).
FailedRow(r, msg) ==
    [r EXCEPT !.status = "failed", !.error_message = msg, !.completed_at = TRUE]

Init ==
    /\ nextId = 1
    /\ store = [i \in Ids |-> NoFile]
    /\ rec = [i \in Ids |-> NoRec]
    /\ queue = <<>>
    /\ task = [i \in Ids |-> IdleTask]
    /\ backend = [k \in BackendKeys |-> Pending]
    /\ fast = NoFast
    /\ an = NoAnalysis
    /\ financial_metrics_table = {}
    /\ poll = NoPoll
    /\ extraction = NoExtraction

\* ------------------------------------------------------------ API layer
\* The API runs on one event loop: a handler runs to its end before another
\* starts, and /analyze-fast holds the loop for the whole analysis.  The
\* response of a request is a function of the state it meets and its inputs.
LoopFree == fast = NoFast

\* Message with the query passed on as the client sent it.
Message_raw_query(id, u) ==
    [task_id |-> id, file_path |-> id, query |-> u.query, filename |-> u.filename]

\* Message with one file path for every job.
Message_shared_path(id, u) ==
    [task_id |-> id, file_path |-> 1, query |-> Strip(u.query), filename |-> u.filename]

\* The keyword arguments of analyze_financial_document_task.delay (main.py 107-112).
Message(id, u) ==
    [task_id |-> id, file_path |-> id, query |-> Strip(u.query), filename |-> u.filename]

\* analyze_document_effects with the enqueue placed before the commit of the row.
analyze_document_effects_enqueue_first(u, failAt) ==
    [file |-> ~RejectedFilename(u.filename) /\ failAt \notin {"write"},
     row |-> ~RejectedFilename(u.filename) /\ failAt = "none",
     sent |-> ~RejectedFilename(u.filename) /\ failAt \notin {"write", "enqueue"}]

\* The statements of analyze_document's try block that ran before the one
\* that raised (failAt), in the order of the code: validate, write the
\* file, commit the row, enqueue.
analyze_document_effects(u, failAt) ==
    [file |-> ~RejectedFilename(u.filename) /\ failAt \notin {"write"},
     row |-> ~RejectedFilename(u.filename) /\ failAt \notin {"write", "commit"},
     sent |-> ~RejectedFilename(u.filename) /\ failAt = "none"]

\* POST /analyze: the response.  Every exception of the try block, the
\* HTTPException(400) included, leaves as a 500.
analyze_document_response(u, failAt) ==
    IF analyze_document_effects(u, failAt).sent
    THEN [code |-> 200, status |-> "queued", task_id |-> nextId]
    ELSE [code |-> 500, status |-> "error", task_id |-> 0]

\* POST /analyze
analyze_document(u, failAt) ==
    /\ LoopFree
    /\ nextId \in Ids
    /\ RejectedFilename(u.filename) => failAt = "none"
    /\ LET id == nextId
           e == analyze_document_effects(u, failAt)
       IN  /\ nextId' = nextId + 1
           /\ store' = IF e.file THEN [store EXCEPT ![id] = File(u.doc)] ELSE store
           /\ rec' = IF e.row
                     THEN [rec EXCEPT ![id] = NewRecord(u.filename, Strip(u.query), "queued")]
                     ELSE rec
           /\ queue' = IF e.sent THEN Append(queue, Message(id, u)) ELSE queue
           /\ task' = IF e.sent THEN [task EXCEPT ![id].pc = "queued"] ELSE task
    /\ UNCHANGED <<backend, fast, an, financial_metrics_table, poll, extraction>>

\* POST /analyze-fast, up to the commit of the new row.  After a rejected
\* file name or a failed commit the handler's except block fails in turn
\* (db_analysis unbound, session unusable) and the request ends as a 500.
analyze_fast_create(u, commitOk) ==
    /\ LoopFree
    /\ nextId \in Ids
    /\ RejectedFilename(u.filename) => commitOk
    /\ nextId' = nextId + 1
    /\ IF ~RejectedFilename(u.filename) /\ commitOk
       THEN /\ rec' = [rec EXCEPT ![nextId] =
                          NewRecord(u.filename, Strip(u.query), "processing")]
            /\ fast' = [task_id |-> nextId, content |-> u.doc, filename |-> u.filename,
                        query |-> Strip(u.query)]
       ELSE UNCHANGED <<rec, fast>>
    /\ UNCHANGED <<store, queue, task, backend, an, financial_metrics_table, poll, extraction>>

\* POST /analyze-fast, from the analysis to the response: the row it leaves.
analyze_fast_row(r, a, commitOk, handlerOk) ==
    IF ~a.raised /\ commitOk THEN CompletedRow(r, a.result)
    ELSE IF handlerOk
         THEN FailedRow(r, <<IF a.raised THEN a.error ELSE "commit failed">>)
         ELSE r

\* What the framework answers when the handler's except block raises in
\* turn: the exception it was handling is lost.
InternalServerError == [code |-> 500, status |-> "error", detail |-> <<"Internal Server Error">>]

\* POST /analyze-fast: the response of a request that ends before the
\* analysis.  For a rejected file name the except block reads db_analysis,
\* which was never bound; after a failed commit it answers the failure when
\* its own commit goes through (handlerOk).
analyze_fast_create_response(u, commitOk, handlerOk) ==
    IF RejectedFilename(u.filename) THEN InternalServerError
    ELSE IF ~commitOk
         THEN IF handlerOk
              THEN [code |-> 500, status |-> "error", detail |-> <<"commit failed">>]
              ELSE InternalServerError
         ELSE [code |-> 0, status |-> "running", detail |-> <<>>]

\* POST /analyze-fast: the response after the analysis.
analyze_fast_response(a, commitOk, handlerOk) ==
    IF ~a.raised /\ commitOk
    THEN [code |-> 200, status |-> "completed", detail |-> <<>>]
    ELSE IF handlerOk
         THEN [code |-> 500, status |-> "error",
               detail |-> <<IF a.raised THEN a.error ELSE "commit failed">>]
         ELSE InternalServerError

analyze_fast_run(scen, commitOk, handlerOk) ==
    /\ fast # NoFast
    /\ LET id == fast.task_id
           a == service_analyze_document(fast.content, fast.filename, fast.query, scen)
       IN  rec' = [rec EXCEPT ![id] = analyze_fast_row(rec[id], a, commitOk, handlerOk)]
    /\ fast' = NoFast
    /\ UNCHANGED <<nextId, store, queue, task, backend, an, financial_metrics_table,
                   poll, extraction>>

\* celery_app.AsyncResult(task_id): what the backend holds under that key.
AsyncResult(key) == backend[key]

\* get_analysis_status_response with a failed Celery lookup answered as an
\* error.
get_analysis_status_response_celery_error(id, failAt) ==
    IF rec[id] = NoRec THEN [code |-> 404]
    ELSE IF rec[id].status \in {"queued", "processing"} /\ failAt # "none"
         THEN [code |-> 500]
         ELSE [code |-> 200, row |-> rec[id], celery_status |-> "", progress |-> -1]

\* Where the Celery lookup of GET /analysis/{task_id} raises: nowhere, at
\* celery_task.status, or at celery_task.info.
CeleryFailPoints == {"none", "status", "info"}

\* GET /analysis/{task_id}: the response.  The lookup is made under the job
\* id; what it raises is logged and the row is answered without it.
get_analysis_status_response(id, failAt) ==
    IF rec[id] = NoRec THEN [code |-> 404]
    ELSE IF rec[id].status \in {"queued", "processing"} /\ failAt # "status"
         THEN [code |-> 200, row |-> rec[id], celery_status |-> AsyncResult(id).state,
               progress |-> IF AsyncResult(id).state = "PROGRESS" /\ failAt # "info"
                            THEN AsyncResult(id).current ELSE -1]
         ELSE [code |-> 200, row |-> rec[id], celery_status |-> "", progress |-> -1]

\* GET /analysis/{task_id}
get_analysis_status(id, failAt) ==
    /\ LoopFree
    /\ get_analysis_status_response(id, failAt).code \in {200, 404}
    /\ UNCHANGED vars

\* DELETE /analysis/{task_id}: the response.  The HTTPException(404) for a
\* missing row is raised inside the try block, whose `except Exception`
\* turns it into a 500.
delete_analysis_response(id, commitOk) ==
    IF rec[id] = NoRec THEN [code |-> 500, detail |-> "404: Analysis not found"]
    ELSE IF commitOk THEN [code |-> 200, detail |-> "deleted successfully"]
    ELSE [code |-> 500, detail |-> "commit failed"]

\* DELETE /analysis/{task_id}
delete_analysis(id, commitOk) ==
    /\ LoopFree
    /\ rec[id] = NoRec => commitOk
    /\ rec' = IF rec[id] # NoRec /\ commitOk THEN [rec EXCEPT ![id] = NoRec] ELSE rec
    /\ UNCHANGED <<nextId, store, queue, task, backend, fast, an,
                   financial_metrics_table, poll, extraction>>

\* --------------------------------------------------------------- worker
\* self.update_state(state, meta) of the task running job id; ok = FALSE when
\* the result backend cannot be written and the call raises.
update_state(id, ok, value) ==
    IF ok THEN [backend EXCEPT ![CeleryIdOf(id)] = value] ELSE backend

\* Control passes to the task's except block with exception e.
Raise(id, e) == [task EXCEPT ![id].pc = "except", ![id].cause = e]

\* WorkerStart with the unit of work left in the queue for another delivery.
WorkerStart_redeliver(id, ok) ==
    /\ queue # <<>>
    /\ Head(queue).task_id = id
    /\ task[id].pc = "queued"
    /\ queue' = queue
    /\ backend' = update_state(id, ok, Progress(20, "Reading document..."))
    /\ task' = IF ok
               THEN [task EXCEPT ![id].pc = "read", ![id].args = Head(queue)]
               ELSE [Raise(id, "update_state failed") EXCEPT ![id].args = Head(queue)]
    /\ UNCHANGED <<nextId, store, rec, fast, an, financial_metrics_table, poll, extraction>>

\* A worker takes the unit of work at the head of the queue and runs the
\* task up to the first progress report (tasks.py 13-24).
WorkerStart(id, ok) ==
    /\ queue # <<>>
    /\ Head(queue).task_id = id
    /\ task[id].pc = "queued"
    /\ queue' = Tail(queue)
    /\ backend' = update_state(id, ok, Progress(20, "Reading document..."))
    /\ task' = IF ok
               THEN [task EXCEPT ![id].pc = "read", ![id].args = Head(queue)]
               ELSE [Raise(id, "update_state failed") EXCEPT ![id].args = Head(queue)]
    /\ UNCHANGED <<nextId, store, rec, fast, an, financial_metrics_table, poll, extraction>>

\* Verify the file exists, read it, report progress 40 (tasks.py 26-39).
WorkerRead(id, ok) ==
    /\ task[id].pc = "read"
    /\ ~store[task[id].args.file_path].exists => ok
    /\ IF ~store[task[id].args.file_path].exists
       THEN /\ task' = Raise(id, "File not found")
            /\ backend' = backend
       ELSE /\ backend' = update_state(id, ok, Progress(40, "Analyzing with AI..."))
            /\ task' = IF ok
                       THEN [task EXCEPT ![id].pc = "analyze",
                                         ![id].file_content = store[task[id].args.file_path]]
                       ELSE Raise(id, "update_state failed")
    /\ UNCHANGED <<nextId, store, rec, queue, fast, an, financial_metrics_table, poll,
                   extraction>>

\* analysis_service.analyze_document, then progress 80 (tasks.py 41-53).
WorkerAnalyze(id, scen, ok) ==
    /\ task[id].pc = "analyze"
    /\ LET a == service_analyze_document(task[id].file_content.doc, task[id].args.filename,
                                task[id].args.query, scen)
       IN  IF a.raised
           THEN /\ ok
                /\ task' = [Raise(id, a.error) EXCEPT ![id].calls = Len(a.calls)]
                /\ backend' = backend
           ELSE /\ backend' = update_state(id, ok, Progress(80, "Saving results..."))
                /\ task' = IF ok
                           THEN [task EXCEPT ![id].pc = "save", ![id].result = a.result,
                                             ![id].calls = Len(a.calls)]
                           ELSE [Raise(id, "update_state failed") EXCEPT
                                     ![id].calls = Len(a.calls)]
    /\ UNCHANGED <<nextId, store, rec, queue, fast, an, financial_metrics_table, poll,
                   extraction>>

\* Look the row up and commit the result (tasks.py 55-64).
WorkerSave(id, commitOk) ==
    /\ task[id].pc = "save"
    /\ rec[id] = NoRec => commitOk
    /\ IF rec[id] = NoRec
       THEN /\ rec' = rec
            /\ task' = [task EXCEPT ![id].pc = "notify"]
       ELSE IF commitOk
            THEN /\ rec' = [rec EXCEPT ![id] = CompletedRow(rec[id], task[id].result)]
                 /\ task' = [task EXCEPT ![id].pc = "notify"]
            ELSE /\ rec' = rec
                 /\ task' = Raise(id, "commit failed")
    /\ UNCHANGED <<nextId, store, queue, backend, fast, an, financial_metrics_table,
                   poll, extraction>>

\* The final progress report and the return (tasks.py 66-78).
WorkerNotify(id, ok) ==
    /\ task[id].pc = "notify"
    /\ backend' = update_state(id, ok,
                    [state |-> "SUCCESS", current |-> 100, total |-> 100,
                     status |-> "Analysis completed!"])
    /\ task' = IF ok
               THEN [task EXCEPT ![id].pc = "finally", ![id].outcome = "completed"]
               ELSE Raise(id, "update_state failed")
    /\ UNCHANGED <<nextId, store, rec, queue, fast, an, financial_metrics_table, poll,
                   extraction>>

\* The row the except block leaves: the failure recorded when the row is
\* found and the write goes through, the row as it was when the write
\* fails, which the block only logs (tasks.py 84-94).
ExceptRow(r, cause, commitOk) ==
    IF r # NoRec /\ commitOk THEN FailedRow(r, <<"Analysis failed: ", cause>>) ELSE r

\* The except block (tasks.py 80-96).
WorkerExcept(id, commitOk) ==
    /\ task[id].pc = "except"
    /\ rec[id] = NoRec => commitOk
    /\ rec' = [rec EXCEPT ![id] = ExceptRow(rec[id], task[id].cause, commitOk)]
    /\ task' = [task EXCEPT ![id].pc = "finally", ![id].outcome = "raised"]
    /\ UNCHANGED <<nextId, store, queue, backend, fast, an, financial_metrics_table,
                   poll, extraction>>

\* cleanup with the os.remove call left out.
cleanup_never(f, removeOk) == f

\* What the cleanup leaves of the file: removeOk = FALSE when os.remove
\* raises and the task only logs a warning (tasks.py 101-105).
cleanup(f, removeOk) == IF f.exists /\ removeOk THEN NoFile ELSE f

\* The finally block; the task's frame is gone and Celery stores its final
\* state (tasks.py 98-105).
WorkerFinally(id, removeOk) ==
    /\ task[id].pc = "finally"
    /\ ~store[task[id].args.file_path].exists => removeOk
    /\ store' = [store EXCEPT ![task[id].args.file_path] = cleanup(@, removeOk)]
    /\ task' = [task EXCEPT ![id] = [IdleTask EXCEPT !.pc = "done"]]
    /\ backend' = [backend EXCEPT ![CeleryIdOf(id)] =
                      [Pending EXCEPT !.state = IF task[id].outcome = "completed"
                                                THEN "SUCCESS" ELSE "FAILURE"]]
    /\ UNCHANGED <<nextId, rec, queue, fast, an, financial_metrics_table, poll, extraction>>

\* The upload vanishes from the data directory before its job is processed
\* (the case tasks.py 27 tests for).
RemoveUpload(id) ==
    /\ task[id].pc = "queued"
    /\ store[id].exists
    /\ store' = [store EXCEPT ![id] = NoFile]
    /\ UNCHANGED <<nextId, rec, queue, task, backend, fast, an, financial_metrics_table,
                   poll, extraction>>

\* ---------------------------------------------------------- specification
Next ==
    \/ \E u \in Uploads, failAt \in {"none", "write", "commit", "enqueue"} :
          analyze_document(u, failAt)
    \/ \E u \in Uploads, ok \in BOOLEAN : analyze_fast_create(u, ok)
    \/ \E scen \in ModelScenarios, ok \in BOOLEAN, hok \in BOOLEAN : analyze_fast_run(scen, ok, hok)
    \/ \E id \in Ids, failAt \in CeleryFailPoints : get_analysis_status(id, failAt)
    \/ \E id \in Ids, ok \in BOOLEAN : delete_analysis(id, ok)
    \/ \E id \in Ids, ok \in BOOLEAN : WorkerStart(id, ok)
    \/ \E id \in Ids, ok \in BOOLEAN : WorkerRead(id, ok)
    \/ \E id \in Ids, scen \in ModelScenarios, ok \in BOOLEAN : WorkerAnalyze(id, scen, ok)
    \/ \E id \in Ids, ok \in BOOLEAN : WorkerSave(id, ok)
    \/ \E id \in Ids, ok \in BOOLEAN : WorkerNotify(id, ok)
    \/ \E id \in Ids, ok \in BOOLEAN : WorkerExcept(id, ok)
    \/ \E id \in Ids, ok \in BOOLEAN : WorkerFinally(id, ok)
    \/ \E id \in Ids : RemoveUpload(id)

Spec == Init /\ [][Next]_vars

\* One step of the worker process on job id. The worker is a process of its
\* own that takes each delivered message and runs the task body to its end
\* (celery_app.py 10-28), so its steps are weakly fair.
WorkerStep(id) ==
    \/ \E ok \in BOOLEAN : WorkerStart(id, ok)
    \/ \E ok \in BOOLEAN : WorkerRead(id, ok)
    \/ \E scen \in ModelScenarios, ok \in BOOLEAN : WorkerAnalyze(id, scen, ok)
    \/ \E ok \in BOOLEAN : WorkerSave(id, ok)
    \/ \E ok \in BOOLEAN : WorkerNotify(id, ok)
    \/ \E ok \in BOOLEAN : WorkerExcept(id, ok)
    \/ \E ok \in BOOLEAN : WorkerFinally(id, ok)

SpecFair == Spec /\ \A id \in Ids : WF_vars(WorkerStep(id))

\* ----------------------------------------- analyze_document on its own
\* The answers a model call of each stage is run against: a raised call, an
\* answer with no JSON in it, an answer whose JSON does not decode, an
\* answer in the requested shape and, for the recommendations, a JSON array
\* of strings.
StageResponses(st) ==
    CASE st = "company" ->
            {ModelError, Answer(<<>>), Answer(<<"LONG">>), Answer(<<" ", "Acme", "\n">>)}
      [] st = "metrics" ->
            {ModelError, Answer(<<"no", " ", "data">>), Answer(<<"{", "rev", "oops", "}">>),
             Answer(<<"json", "{", "rev", "ni", "}">>)}
      [] st = "recommendations" ->
            {ModelError, Answer(<<"hold", "\n", "sell">>), Answer(<<"[", "oops", "]">>),
             Answer(<<"[", "recBuy", "]">>), Answer(<<"[", "ins", "]">>)}
      [] st = "risks" ->
            {ModelError, Answer(<<"none">>), Answer(<<"[", "riskFin", "]", "[", "]">>),
             Answer(<<"[", "riskFin", "]">>)}
      [] st = "insights" ->
            {ModelError, Answer(<<" ", "demand", "\n", " ", "\n", "margins">>),
             Answer(<<"[", "ins", "oops", "]">>), Answer(<<"[", "ins", "ins", "]">>)}
      [] OTHER -> {ModelError, Answer(<<" ", "answer", "\n">>)}

AnalysisDocs == {GoodDoc, CorruptDoc, ScannedDoc, GappedDoc}

AnalysisFilenames == {<<"report", ".pdf">>, <<"annual", "_", "report", ".PDF">>}

AnalysisQuery == <<"growth">>

InitAnalyze ==
    /\ nextId = 1
    /\ store = [i \in Ids |-> NoFile]
    /\ rec = [i \in Ids |-> NoRec]
    /\ queue = <<>>
    /\ task = [i \in Ids |-> IdleTask]
    /\ backend = [k \in BackendKeys |-> Pending]
    /\ fast = NoFast
    /\ financial_metrics_table = {}
    /\ poll = NoPoll
    /\ extraction = NoExtraction
    /\ an \in { [state |-> "drawn", doc |-> d, filename |-> f, query |-> AnalysisQuery,
                 resp |-> [company |-> r1, metrics |-> r2, recommendations |-> r3,
                           risks |-> r4, insights |-> r5, query |-> r6]] :
                d \in AnalysisDocs, f \in AnalysisFilenames,
                r1 \in StageResponses("company"), r2 \in StageResponses("metrics"),
                r3 \in StageResponses("recommendations"), r4 \in StageResponses("risks"),
                r5 \in StageResponses("insights"), r6 \in StageResponses("query") }

\* One call of analyze_document on the drawn inputs.
AnalyzeCall ==
    /\ an.state = "drawn"
    /\ an' = [state |-> "returned", doc |-> an.doc, filename |-> an.filename,
              query |-> an.query, resp |-> an.resp,
              out |-> service_analyze_document(an.doc, an.filename, an.query, an.resp)]
    /\ UNCHANGED <<nextId, store, rec, queue, task, backend, fast,
                   financial_metrics_table, poll, extraction>>

NextAnalyze == AnalyzeCall

SpecAnalyze == InitAnalyze /\ [][NextAnalyze]_vars

\* ------------------------------- both paths against one mocked model
\* One upload is sent to POST /analyze and to POST /analyze-fast, in any
\* order and interleaving, against a mocked model that answers the same
\* prompt the same way; the database, the broker, the result backend and
\* the file system work.
InitPaths ==
    /\ nextId = 1
    /\ store = [i \in Ids |-> NoFile]
    /\ rec = [i \in Ids |-> NoRec]
    /\ queue = <<>>
    /\ task = [i \in Ids |-> IdleTask]
    /\ backend = [k \in BackendKeys |-> Pending]
    /\ fast = NoFast
    /\ financial_metrics_table = {}
    /\ poll = NoPoll
    /\ extraction = NoExtraction
    /\ an \in { [state |-> "mocked", u |-> u, scen |-> scen] :
                 u \in Uploads, scen \in ModelScenarios }

NextPaths ==
    \/ analyze_document(an.u, "none")
    \/ analyze_fast_create(an.u, TRUE)
    \/ analyze_fast_run(an.scen, TRUE, TRUE)
    \/ \E id \in Ids : WorkerStart(id, TRUE)
    \/ \E id \in Ids : WorkerRead(id, TRUE)
    \/ \E id \in Ids : WorkerAnalyze(id, an.scen, TRUE)
    \/ \E id \in Ids : WorkerSave(id, TRUE)
    \/ \E id \in Ids : WorkerNotify(id, TRUE)
    \/ \E id \in Ids : WorkerExcept(id, TRUE)
    \/ \E id \in Ids : WorkerFinally(id, TRUE)

SpecPaths == InitPaths /\ [][NextPaths]_vars

\* ------------------------------------- _extract_pdf_text, step by step
\* The calls of _extract_pdf_text that run in one process.  They share the
\* file data/temp_{os.getpid()}.pdf (analysis_service.py 65).
Threads == 1..MaxExtractions

ExtractDocs == {GoodDoc, CorruptDoc, GappedDoc, BrokenPageDoc}

NoText == [raised |-> FALSE, error |-> "", text |-> <<>>]

InitExtract ==
    /\ nextId = 1
    /\ store = [i \in Ids |-> NoFile]
    /\ rec = [i \in Ids |-> NoRec]
    /\ queue = <<>>
    /\ task = [i \in Ids |-> IdleTask]
    /\ backend = [k \in BackendKeys |-> Pending]
    /\ fast = NoFast
    /\ an = NoAnalysis
    /\ financial_metrics_table = {}
    /\ poll = NoPoll
    /\ \E docs \in [Threads -> ExtractDocs] :
          extraction = [temp |-> NoFile,
                        th |-> [t \in Threads |->
                                   [pc |-> "write", doc |-> docs[t], got |-> NoFile,
                                    out |-> NoText]]]

\* with open(temp_path, "wb") as f: f.write(file_content)
ExtractWrite(t, writeOk) ==
    /\ t \in DOMAIN extraction.th
    /\ extraction.th[t].pc = "write"
    /\ extraction' =
          IF writeOk
          THEN [extraction EXCEPT !.temp = File(extraction.th[t].doc),
                                  !.th[t].pc = "read"]
          ELSE [extraction EXCEPT !.th[t].pc = "finally",
                                  !.th[t].out = [NoText EXCEPT !.raised = TRUE,
                                                               !.error = "OSError"]]
    /\ UNCHANGED <<nextId, store, rec, queue, task, backend, fast, an,
                   financial_metrics_table, poll>>

\* reader = PdfReader(temp_path) and the loop over reader.pages: the bytes
\* that are in the file at that moment are parsed.
ExtractRead(t) ==
    /\ t \in DOMAIN extraction.th
    /\ extraction.th[t].pc = "read"
    /\ extraction' =
          [extraction EXCEPT
              !.th[t].pc = "finally",
              !.th[t].got = extraction.temp,
              !.th[t].out = IF extraction.temp.exists
                            THEN _extract_pdf_text(extraction.temp.doc)
                            ELSE [NoText EXCEPT !.raised = TRUE,
                                                !.error = "FileNotFoundError"]]
    /\ UNCHANGED <<nextId, store, rec, queue, task, backend, fast, an,
                   financial_metrics_table, poll>>

\* remove_temp with an os.remove that is never called.
remove_temp_never(f, removeOk) == f

\* if os.path.exists(temp_path): os.remove(temp_path)
remove_temp(f, removeOk) == IF f.exists /\ removeOk THEN NoFile ELSE f

\* The finally block.  An os.remove that raises is not caught here: the
\* exception replaces the call's outcome.
ExtractFinally(t, removeOk) ==
    /\ t \in DOMAIN extraction.th
    /\ extraction.th[t].pc = "finally"
    /\ ~extraction.temp.exists => removeOk
    /\ extraction' =
          [extraction EXCEPT
              !.temp = remove_temp(@, removeOk),
              !.th[t].pc = "exited",
              !.th[t].out = IF removeOk THEN @
                            ELSE [NoText EXCEPT !.raised = TRUE, !.error = "OSError"]]
    /\ UNCHANGED <<nextId, store, rec, queue, task, backend, fast, an,
                   financial_metrics_table, poll>>

NextExtract ==
    \/ \E t \in Threads, ok \in BOOLEAN : ExtractWrite(t, ok)
    \/ \E t \in Threads : ExtractRead(t)
    \/ \E t \in Threads, ok \in BOOLEAN : ExtractFinally(t, ok)

SpecExtract == InitExtract /\ [][NextExtract]_vars

\* -------------------------------------------- the dashboard's polling
\* poll_for_results(task_id) is called with the job id of a 200 answer of
\* POST /analyze (frontend.py 255).
PollStart(id) ==
    /\ poll = NoPoll
    /\ task[id].pc # "idle"
    /\ poll' = [state |-> "polling", task_id |-> id, attempt |-> 0, outcome |-> ""]
    /\ UNCHANGED <<nextId, store, rec, queue, task, backend, fast, an,
                   financial_metrics_table, extraction>>

\* What one pass of the loop body leaves: a return value, or the next pass.
\* A request that raised (requestOk = FALSE) or was not answered 200 is a
\* pass without a return.
poll_attempt(p, requestOk, response) ==
    IF requestOk /\ response.code = 200 /\ response.row.status = "completed"
    THEN [p EXCEPT !.state = "returned", !.attempt = @ + 1, !.outcome = "completed"]
    ELSE IF requestOk /\ response.code = 200 /\ response.row.status = "failed"
         THEN [p EXCEPT !.state = "returned", !.attempt = @ + 1, !.outcome = "failed"]
         ELSE [p EXCEPT !.attempt = @ + 1]

\* One pass of `for attempt in range(max_attempts)`: GET /analysis/{task_id},
\* the tests on the answer, time.sleep(5).
PollQuery(requestOk, failAt) ==
    /\ poll.state = "polling"
    /\ poll.attempt < MaxAttempts
    /\ poll' = poll_attempt(poll, requestOk,
                            get_analysis_status_response(poll.task_id, failAt))
    /\ UNCHANGED <<nextId, store, rec, queue, task, backend, fast, an,
                   financial_metrics_table, extraction>>

\* The loop is exhausted: return False, {"error": "Analysis timed out"}.
PollTimeout ==
    /\ poll.state = "polling"
    /\ poll.attempt = MaxAttempts
    /\ poll' = [poll EXCEPT !.state = "returned", !.outcome = "timed out"]
    /\ UNCHANGED <<nextId, store, rec, queue, task, backend, fast, an,
                   financial_metrics_table, extraction>>

\* A step of the polling client.
PollStep ==
    \/ \E ok \in BOOLEAN, failAt \in CeleryFailPoints : PollQuery(ok, failAt)
    \/ PollTimeout

\* One submitted job, its worker, a delete request and the polling client.
NextPoll ==
    \/ \E u \in Uploads, failAt \in {"none", "write", "commit", "enqueue"} :
          nextId = 1 /\ analyze_document(u, failAt)
    \/ \E id \in Ids, ok \in BOOLEAN : delete_analysis(id, ok)
    \/ \E id \in Ids : WorkerStep(id)
    \/ \E id \in Ids : RemoveUpload(id)
    \/ \E id \in Ids : PollStart(id)
    \/ PollStep

SpecPoll == Init /\ [][NextPoll]_vars

\* The worker process and the client's loop both keep running.
SpecPollFair ==
    SpecPoll /\ (\A id \in Ids : WF_vars(WorkerStep(id))) /\ WF_vars(PollStep)

\* ------------------------------------------------------------ the claims
Terminal == {"completed", "failed"}

FailPoints == {"none", "write", "commit", "enqueue"}

StructuralCauses == {"File not found", "PdfReadError", "PageReadError"}

\* C1: every change of a row's stored status is queued -> processing,
\* processing -> completed or processing -> failed, and a row is created in
\* status queued.
C1_OnlyLegalTransitions ==
    [][\A id \in Ids :
          /\ (rec[id] = NoRec /\ rec'[id] # NoRec) => rec'[id].status = "queued"
          /\ (rec[id] # NoRec /\ rec'[id] # NoRec /\ rec'[id].status # rec[id].status)
                => <<rec[id].status, rec'[id].status>> \in
                      { <<"queued", "processing">>, <<"processing", "completed">>,
                        <<"processing", "failed">> }]_vars

\* C2: once a row is completed or failed, no later step of the worker task or
\* of the fast path changes its status, result or error message.
C2_TerminalIsFinal ==
    [][\A id \in Ids :
          (rec[id] # NoRec /\ rec[id].status \in Terminal /\ rec'[id] # NoRec)
             => /\ rec'[id].status = rec[id].status
                /\ rec'[id].result = rec[id].result
                /\ rec'[id].error_message = rec[id].error_message]_vars

\* C3: a row has a result payload iff its status is completed, and an error
\* message iff its status is failed.
C3_ResultIffCompleted ==
    \A id \in Ids :
        rec[id] # NoRec =>
            /\ (rec[id].result # NoResult) <=> (rec[id].status = "completed")
            /\ (rec[id].error_message # NullText) <=> (rec[id].status = "failed")

\* C4: a Submit that answers 200 has, in that one step and before any step
\* of the analysis, written the upload to the Document Store, committed a
\* queued row for the new id and enqueued exactly one unit of work
\* (job id, file location, query, filename); and whenever a unit of work
\* enters the queue its row is already committed.
C4_SubmitEnqueuesOnce ==
    [][/\ \A u \in Uploads, failAt \in FailPoints :
             (analyze_document(u, failAt) /\ analyze_document_response(u, failAt).code = 200)
                => /\ analyze_document_response(u, failAt).task_id = nextId
                   /\ store'[nextId] = File(u.doc)
                   /\ rec'[nextId] = NewRecord(u.filename, Strip(u.query), "queued")
                   /\ queue' = Append(queue, [task_id |-> nextId, file_path |-> nextId,
                                              query |-> Strip(u.query),
                                              filename |-> u.filename])
                   /\ Cardinality({i \in 1..Len(queue') : queue'[i].task_id = nextId}) = 1
                   /\ task'[nextId].pc = "queued"
                   /\ task'[nextId].calls = 0
                   /\ backend' = backend
       /\ \A id \in Ids :
             ({i \in 1..Len(queue') : queue'[i].task_id = id} # {}
                /\ {i \in 1..Len(queue) : queue[i].task_id = id} = {})
                => (rec'[id] # NoRec /\ rec'[id].status = "queued")]_vars

\* C4 witness: a submitted job waits in the queue with its file and its row.
C4_Witness ==
    \E id \in Ids :
        /\ task[id].pc = "queued"
        /\ \E i \in 1..Len(queue) : queue[i].task_id = id
        /\ store[id].exists
        /\ rec[id] # NoRec /\ rec[id].status = "queued"

\* C5: under fair scheduling of the worker, every job whose Submit returned
\* a job id eventually has status completed or failed in the Result Store
\* (or its row has been deleted); no job stays queued or processing forever.
C5_EventuallyTerminal ==
    \A id \in Ids :
        (task[id].pc = "queued") ~> (rec[id] = NoRec \/ rec[id].status \in Terminal)

\* C6: when the execution of a job has ended, its source file no longer
\* exists in the Document Store.
C6_FileGoneAtEnd ==
    \A id \in Ids : task[id].pc = "done" => ~store[id].exists

\* C6 as amended: the step that ends the execution of a job leaves no source
\* file in the Document Store, unless the file was there and os.remove
\* raised.
C6_FileGoneUnlessRemoveFails ==
    [][\A id \in Ids, removeOk \in BOOLEAN :
          WorkerFinally(id, removeOk)
             => /\ task'[id].pc = "done"
                /\ ~store'[id].exists \/ (store[id].exists /\ ~removeOk)]_vars

\* C6 witness: an execution that raised has ended and its upload, which was
\* read, is gone.
C6_Witness ==
    \E id \in Ids :
        /\ task[id].pc = "done"
        /\ backend[CeleryIdOf(id)].state = "FAILURE"
        /\ rec[id] # NoRec /\ rec[id].error_message = <<"Analysis failed: ", "PdfReadError">>
        /\ ~store[id].exists

\* C7: DELETE of an id with no row answers 404 and changes nothing; DELETE of
\* an existing row removes it, and GET of an id with no row answers 404.
C7_DeleteMissingIs404 ==
    \A id \in Ids :
        /\ rec[id] = NoRec =>
              /\ delete_analysis_response(id, TRUE).code = 404
              /\ get_analysis_status_response(id, "none").code = 404
        /\ rec[id] # NoRec => delete_analysis_response(id, TRUE).code = 200

\* C8: no row is left in status queued for which no unit of work was
\* enqueued.
C8_NoOrphanQueuedRow ==
    \A id \in Ids :
        (rec[id] # NoRec /\ rec[id].status = "queued") => task[id].pc # "idle"

\* C9: after a structural failure (upload missing, document unreadable) the
\* except block leaves the job's row failed with an error message, and no
\* model call was issued.
C9_StructuralFailureFails ==
    \A id \in Ids :
        (task[id].pc = "finally" /\ task[id].cause \in StructuralCauses /\ rec[id] # NoRec)
           => /\ rec[id].status = "failed"
              /\ rec[id].error_message # NullText
              /\ task[id].calls = 0

\* C10, the stages of the claim: a stage fails by a raised model call or, for
\* the stages that ask for JSON, by an answer with no JSON in it or with JSON
\* that does not decode.
StructuredStages == {"metrics", "recommendations", "risks", "insights"}

StageMatch(st, r) == IF st = "metrics" THEN ReSearchObject(r.text) ELSE ReSearchArray(r.text)

StageFailed(st, r) ==
    \/ r.err
    \/ /\ st \in StructuredStages
       /\ ~StageMatch(st, r).found \/ ~json_loads(StageMatch(st, r).group).ok

StageSucceeded(st, r) ==
    /\ ~StageFailed(st, r)
    /\ st = "company" => (Strip(r.text) # <<>> /\ StrLen(Strip(r.text)) < 100)

StageDefault(st, filename, query) ==
    CASE st = "company" -> FilenameCompany(filename)
      [] st = "metrics" -> EmptyMetrics
      [] st = "recommendations" -> FallbackRecommendations
      [] st = "risks" -> FallbackRisks
      [] st = "insights" -> FallbackInsights
      [] OTHER -> <<"Unable to provide specific analysis for query:">> \o query

StageParsed(st, r) ==
    IF st \in StructuredStages THEN json_loads(StageMatch(st, r).group).val
    ELSE Strip(r.text)

StageField(result, st) ==
    CASE st = "company" -> result.company_name
      [] st = "metrics" -> result.financial_metrics
      [] st = "recommendations" -> result.investment_recommendations
      [] st = "risks" -> result.risk_assessments
      [] st = "insights" -> result.market_insights
      [] OTHER -> result.query_response

AnalysisReturned == an.state = "returned" /\ ~_extract_pdf_text(an.doc).raised

\* C10: whatever subset of the model-call stages fails, analyze_document
\* returns normally, the field of each failed stage is that stage's fixed
\* default, and the field of each stage that succeeded is what it parsed.
C10_FailedStageGetsDefault ==
    AnalysisReturned =>
        /\ ~an.out.raised
        /\ \A st \in StageSet :
              /\ StageFailed(st, an.resp[st]) =>
                    StageField(an.out.result, st) = StageDefault(st, an.filename, an.query)
              /\ StageSucceeded(st, an.resp[st]) =>
                    StageField(an.out.result, st) = StageParsed(st, an.resp[st])

\* The market-insights answer has no "[...]" in it.
InsightsWithoutJson(st, r) == st = "insights" /\ ~r.err /\ ~ReSearchArray(r.text).found

\* C10 as amended: as C10, except that a market-insights answer with no
\* "[...]" in it is kept as its first five non-blank lines, stripped.
C10_FailedStageGetsDefaultOrLines ==
    AnalysisReturned =>
        /\ ~an.out.raised
        /\ \A st \in StageSet :
              /\ (StageFailed(st, an.resp[st]) /\ ~InsightsWithoutJson(st, an.resp[st])) =>
                    StageField(an.out.result, st) = StageDefault(st, an.filename, an.query)
              /\ InsightsWithoutJson(st, an.resp[st]) =>
                    StageField(an.out.result, st) = FirstN(StrippedLines(an.resp[st].text), 5)
              /\ StageSucceeded(st, an.resp[st]) =>
                    StageField(an.out.result, st) = StageParsed(st, an.resp[st])

\* C10 witness: a call has returned in which the metrics call raised, the
\* recommendations and risks JSON did not decode, the insights answer held no
\* JSON, and the company and query stages succeeded.
C10_Witness ==
    /\ AnalysisReturned
    /\ an.resp["metrics"].err
    /\ ReSearchArray(an.resp["recommendations"].text).found
    /\ StageFailed("recommendations", an.resp["recommendations"])
    /\ ReSearchArray(an.resp["risks"].text).found
    /\ StageFailed("risks", an.resp["risks"])
    /\ InsightsWithoutJson("insights", an.resp["insights"])
    /\ StageSucceeded("company", an.resp["company"])
    /\ StageSucceeded("query", an.resp["query"])
    /\ an.out.result.risk_assessments = FallbackRisks
    /\ Len(an.out.result.market_insights) = 2

\* C11, the shapes of models/schemas.py (AnalysisOutput) and of the claim.
RecommendationActions == {"buy", "sell", "hold", "monitor"}

Levels == {"Low", "Medium", "High"}

Confidences == {"0.0", "0.5", "0.8", "1.0"}

IsRecommendation(x) ==
    /\ x.kind = "recommendation"
    /\ x.action \in RecommendationActions
    /\ x.risk_level \in Levels
    /\ x.confidence \in Confidences

IsRisk(x) == x.kind = "risk"

IsString(x) == x.kind = "string"

\* C11: for every model output, the payload analyze_document returns has a
\* non-empty company name, a metrics mapping, recommendations that are
\* records with action, risk level and confidence in range, risks that are
\* risk records and insights that are strings.
C11_PayloadWellFormed ==
    AnalysisReturned =>
        LET result == an.out.result
        IN  /\ result.company_name # <<>>
            /\ DOMAIN result.financial_metrics = MetricKeys
            /\ \A i \in 1..Len(result.investment_recommendations) :
                   IsRecommendation(result.investment_recommendations[i])
            /\ \A i \in 1..Len(result.risk_assessments) :
                   IsRisk(result.risk_assessments[i])
            /\ \A i \in 1..Len(result.market_insights) :
                   IsString(result.market_insights[i])

\* The job ran on the queued path and its execution has ended.
QueuedPathEnded(id) == task[id].pc = "done" /\ rec[id] # NoRec

\* The job ran on the fast path, which creates its row as processing and
\* enqueues nothing, and its request has ended.
FastPathEnded(id) ==
    /\ task[id].pc = "idle"
    /\ rec[id] # NoRec
    /\ rec[id].status # "queued"
    /\ fast.task_id # id

\* C12: given the same file bytes, query and filename and the same mocked
\* model, the job of the queued path and the job of the fast path end with
\* the same result payload, the same status and the same company name.
C12_PathsAgree ==
    \A a \in Ids, b \in Ids :
        (QueuedPathEnded(a) /\ FastPathEnded(b))
           => /\ rec[a].status \in Terminal
              /\ rec[a].status = rec[b].status
              /\ rec[a].result = rec[b].result
              /\ rec[a].company_name = rec[b].company_name
              /\ rec[a].filename = rec[b].filename
              /\ rec[a].query = rec[b].query

\* C12 witness: both paths have ended on the readable upload with the model
\* answering, and both rows are completed for the company the model named.
C12_Witness ==
    \E a \in Ids, b \in Ids :
        /\ QueuedPathEnded(a) /\ FastPathEnded(b)
        /\ rec[a].status = "completed"
        /\ rec[b].status = "completed"
        /\ rec[b].company_name = <<"Acme">>
        /\ rec[b].result.summary.query = <<"growth">>

\* The job's row is queued or processing and the worker running it has
\* published a progress milestone.
ProgressPublished(id) ==
    /\ rec[id] # NoRec
    /\ rec[id].status \in {"queued", "processing"}
    /\ backend[CeleryIdOf(id)].state = "PROGRESS"

\* C13: while a job is non-terminal and its worker has published a progress
\* milestone, GET for the job's id answers the row with the queue's status
\* and the progress that worker published.
C13_GetShowsOwnProgress ==
    \A id \in Ids :
        ProgressPublished(id)
           => /\ get_analysis_status_response(id, "none").code = 200
              /\ get_analysis_status_response(id, "none").row = rec[id]
              /\ get_analysis_status_response(id, "none").celery_status = "PROGRESS"
              /\ get_analysis_status_response(id, "none").progress =
                     backend[CeleryIdOf(id)].current

\* C14: GET for an existing row answers 200 with the stored row wherever the
\* Celery lookup raises, without progress when the lookup raised at its
\* first step; and a completed or failed row is answered without
\* celery_status and progress.
C14_LookupFailureIsSilent ==
    \A id \in Ids, failAt \in CeleryFailPoints :
        rec[id] # NoRec
           => /\ get_analysis_status_response(id, failAt).code = 200
              /\ get_analysis_status_response(id, failAt).row = rec[id]
              /\ failAt = "status"
                    => /\ get_analysis_status_response(id, failAt).celery_status = ""
                       /\ get_analysis_status_response(id, failAt).progress = -1
              /\ failAt = "info" => get_analysis_status_response(id, failAt).progress = -1
              /\ rec[id].status \in Terminal
                    => /\ get_analysis_status_response(id, failAt).celery_status = ""
                       /\ get_analysis_status_response(id, failAt).progress = -1

\* C14 witness: one job is being analysed with its row still queued, another
\* job's row is completed, and GET answers 200 for the first when the Celery
\* lookup raises.
C14_Witness ==
    \E a \in Ids, b \in Ids :
        /\ task[a].pc = "analyze"
        /\ rec[a] # NoRec /\ rec[a].status = "queued"
        /\ get_analysis_status_response(a, "status").code = 200
        /\ rec[b] # NoRec /\ rec[b].status = "completed"

\* The units of work in the queue that name job id.
MessagesOf(id) == {i \in 1..Len(queue) : queue[i].task_id = id}

\* A worker has taken the job's unit of work.
Started(id) == task[id].pc \notin {"idle", "queued"}

\* C15: a job has at most one unit of work, in the queue or taken by a
\* worker; once taken it is never in the queue again, an execution that
\* raised only runs to its end, and an ended execution never runs again.
C15_AtMostOnce ==
    [][\A id \in Ids :
          /\ Cardinality(MessagesOf(id)) + (IF Started(id) THEN 1 ELSE 0) <= 1
          /\ Cardinality(MessagesOf(id)') + (IF Started(id)' THEN 1 ELSE 0) <= 1
          /\ Started(id) => (Started(id)' /\ MessagesOf(id)' = {})
          /\ task[id].pc \in {"except", "finally"}
                => task'[id].pc \in {"except", "finally", "done"}
          /\ task[id].pc = "done" => task'[id].pc = "done"]_vars

\* C15 witness: the execution of one job raised and has ended, its row is
\* failed and no unit of work names it, while another job is executing.
C15_Witness ==
    \E a \in Ids, b \in Ids :
        /\ task[a].pc = "done"
        /\ rec[a] # NoRec /\ rec[a].status = "failed"
        /\ MessagesOf(a) = {}
        /\ task[b].pc \in {"read", "analyze", "save"}

\* The bytes uploaded under a file name (the file names of Uploads differ).
DocOf(filename) == (CHOOSE u \in Uploads : u.filename = filename).doc

\* The payloads an analysis of the job's own inputs can store.
OwnResults(filename, query) ==
    { service_analyze_document(DocOf(filename), filename, query, scen).result :
         scen \in ModelScenarios }

\* The error messages a failure of the job's own execution can store.
OwnErrors ==
    { <<"Analysis failed: ", c>> :
         c \in StructuralCauses \cup {"update_state failed", "commit failed"} }
    \cup { <<c>> : c \in StructuralCauses \cup {"commit failed"} }

C17_FieldsChangeTogether ==
    \A id \in Ids :
        /\ (rec[id] # NoRec /\ rec[id].status = "completed")
              => /\ get_analysis_status_response(id, "none").row.result # NoResult
                 /\ get_analysis_status_response(id, "none").row.completed_at
                 /\ get_analysis_status_response(id, "none").row.processing_time
                 /\ get_analysis_status_response(id, "none").row.company_name =
                        get_analysis_status_response(id, "none").row.result.company_name
        /\ (rec[id] # NoRec /\ rec[id].status = "failed")
              => /\ get_analysis_status_response(id, "none").row.error_message # NullText
                 /\ get_analysis_status_response(id, "none").row.completed_at

\* C17 witness: the worker has committed one job as completed and is about
\* to report it, and the fast path has left another job failed.
C17_Witness ==
    \E a \in Ids, b \in Ids :
        /\ task[a].pc = "notify"
        /\ rec[a] # NoRec /\ rec[a].status = "completed"
        /\ rec[a].company_name = <<"Acme">>
        /\ task[b].pc = "idle"
        /\ rec[b] # NoRec /\ rec[b].status = "failed"
        /\ rec[b].error_message = <<"PdfReadError">>

\* C18: a rejected upload to /analyze-fast is answered with an error that
\* carries the validation message, and a row created by an /analyze-fast
\* request that has ended is completed, or failed with the failure's
\* message.
C18_FastFailureKeepsMessage ==
    /\ \A u \in Uploads, commitOk \in BOOLEAN, handlerOk \in BOOLEAN :
          RejectedFilename(u.filename)
             => /\ analyze_fast_create_response(u, commitOk, handlerOk).code \in {400, 500}
                /\ analyze_fast_create_response(u, commitOk, handlerOk).detail =
                       <<"Only PDF files are supported">>
    /\ \A id \in Ids :
          FastPathEnded(id)
             => /\ rec[id].status \in Terminal
                /\ rec[id].status = "failed" => rec[id].error_message # NullText

\* C19: the worker goes on from the write to reporting success only when
\* the completed status and the result were committed to the job's row, and
\* the fast path answers "completed" only when they were.
C19_SuccessOnlyAfterWrite ==
    [][/\ \A id \in Ids :
             (task[id].pc = "save" /\ task'[id].pc = "notify")
                => /\ rec'[id] # NoRec
                   /\ rec'[id].status = "completed"
                   /\ rec'[id].result = task[id].result
       /\ \A scen \in ModelScenarios, commitOk \in BOOLEAN, handlerOk \in BOOLEAN :
             (/\ analyze_fast_run(scen, commitOk, handlerOk)
              /\ analyze_fast_response(
                     service_analyze_document(fast.content, fast.filename, fast.query, scen),
                     commitOk, handlerOk).status = "completed")
                => /\ rec'[fast.task_id] # NoRec
                   /\ rec'[fast.task_id].status = "completed"]_vars

\* FinancialMetrics(analysis_id, task_id, company_name, revenue, ...): the row
\* DatabaseService._save_financial_metrics derives from a result payload
\* (database_service.py 98-107).  No handler and no task calls it.
FinancialMetricsRow(id, result) ==
    [task_id |-> id, company_name |-> result.company_name,
     revenue |-> result.financial_metrics["revenue"],
     net_income |-> result.financial_metrics["net_income"]]

\* C20: the financial_metrics table holds exactly one row for each completed
\* job, with the company name and the metric values of the job's result.
C20_MetricsRowPerCompleted ==
    financial_metrics_table =
        { FinancialMetricsRow(id, rec[id].result) :
             id \in {i \in Ids : rec[i] # NoRec /\ rec[i].status = "completed"} }

\* The order of the stages of the claim.
StageOrder ==
    <<"extract", "company", "metrics", "recommendations", "risks", "insights", "summary",
      "query">>

\* C22: the stages of analyze_document run in the order extraction, company
\* name, metrics, recommendations, risks, insights, summary, query answer;
\* recommendations, risks and the query answer are called with the metrics
\* the metrics stage returned, insights and the summary with the company
\* name the company-name stage returned.
C22_StagesInOrder ==
    AnalysisReturned =>
        LET trace == an.out.trace
            result == an.out.result
        IN  /\ [i \in 1..Len(trace) |-> trace[i].stage] = StageOrder
            /\ \A i \in 1..Len(trace) :
                  /\ trace[i].stage \in {"recommendations", "risks", "query"}
                        => trace[i].metrics = _extract_financial_metrics(an.resp["metrics"])
                  /\ trace[i].stage \in {"insights", "summary"}
                        => trace[i].company =
                              _extract_company_name(an.filename, an.resp["company"])
                  /\ trace[i].stage \in {"recommendations", "summary", "query"}
                        => trace[i].query = an.query
            /\ result.summary =
                  _generate_summary(result.financial_metrics, result.company_name, an.query)

\* C22 witness: a call has returned whose metrics stage decoded the model's
\* JSON and whose company-name stage kept the model's answer.
C22_Witness ==
    /\ AnalysisReturned
    /\ Len(an.out.trace) = 8
    /\ an.out.trace[5].metrics["revenue"] = "120"
    /\ an.out.trace[6].company = <<"Acme">>
    /\ an.out.result.summary.revenue = "120"

\* The pages of a document that yield text.
TextPages(doc) == SelectSeq(doc.pages, LAMBDA p : p.text # <<>>)

\* The concatenation of the texts of a sequence of pages, each followed by
\* a newline.
RECURSIVE JoinPages(_)
JoinPages(pages) ==
    IF pages = <<>> THEN <<>>
    ELSE JoinPages(SubSeq(pages, 1, Len(pages) - 1)) \o pages[Len(pages)].text \o <<"\n">>

Stem(filename) ==
    IF filename # <<>> /\ Lower(filename)[Len(filename)] = ".pdf"
    THEN SubSeq(filename, 1, Len(filename) - 1)
    ELSE filename

\* The title-cased stem with underscores turned into spaces.
TitleStem(filename) == Title(Replace(Stem(filename), "_", <<" ">>))

\* C25: the company name of a result is the model's answer, trimmed, when
\* that is non-empty and shorter than 100 characters; otherwise, and when
\* the model call fails, it is the title-cased stem of the file name, for
\* every file name the upload validation accepts.
C25_CompanyNameOrTitleStem ==
    (AnalysisReturned /\ ~RejectedFilename(an.filename)) =>
        an.out.result.company_name =
            IF /\ ~an.resp["company"].err
               /\ Strip(an.resp["company"].text) # <<>>
               /\ StrLen(Strip(an.resp["company"].text)) < 100
            THEN Strip(an.resp["company"].text)
            ELSE TitleStem(an.filename)

\* The position where the bracket opened before position i closes, with
\* depth brackets open at i; 0 when it never closes.
RECURSIVE BalancedEnd(_, _, _, _, _)
BalancedEnd(s, i, depth, open, close) ==
    IF i > Len(s) THEN 0
    ELSE IF s[i] = open THEN BalancedEnd(s, i + 1, depth + 1, open, close)
    ELSE IF s[i] = close
         THEN IF depth = 1 THEN i ELSE BalancedEnd(s, i + 1, depth - 1, open, close)
    ELSE BalancedEnd(s, i + 1, depth, open, close)

\* The first balanced open ... close substring of a text.
FirstBalanced(s, open, close) ==
    LET starts == {i \in Indices(s, {open}) : BalancedEnd(s, i + 1, 1, open, close) # 0}
    IN  IF starts = {} THEN NoMatch
        ELSE [found |-> TRUE,
              group |-> SubSeq(s, SetMin(starts),
                               BalancedEnd(s, SetMin(starts) + 1, 1, open, close))]

\* C26: for every answer to a structured stage, the substring handed to the
\* JSON decoder is the first balanced {...} (metrics) or [...] (the other
\* stages) substring of the answer.
C26_DecodesFirstBalanced ==
    AnalysisReturned =>
        \A st \in StructuredStages :
            ~an.resp[st].err =>
                StageMatch(st, an.resp[st]) =
                    IF st = "metrics" THEN FirstBalanced(an.resp[st].text, "{", "}")
                    ELSE FirstBalanced(an.resp[st].text, "[", "]")

\* C28: an upload whose file name is missing or does not end in .pdf is
\* answered 400 "Only PDF files are supported" by POST /analyze and by
\* POST /analyze-fast, and the request leaves no file, no row and no unit of
\* work.
C28_RejectedUploadIs400 ==
    [][\A u \in Uploads :
          RejectedFilename(u.filename)
             => /\ analyze_document(u, "none")
                     => /\ analyze_document_response(u, "none").code = 400
                        /\ <<store', rec', queue', task'>> = <<store, rec, queue, task>>
                /\ analyze_fast_create(u, TRUE)
                     => /\ analyze_fast_create_response(u, TRUE, TRUE).code = 400
                        /\ analyze_fast_create_response(u, TRUE, TRUE).detail =
                               <<"Only PDF files are supported">>
                        /\ <<store', rec', queue', task'>> = <<store, rec, queue, task>>]_vars

\* The job's unit of work is in the queue or a worker is executing it.
EnqueuedOrExecuting(id) == task[id].pc \notin {"idle", "done"}

\* C29: every file of the Document Store belongs to a row that exists, is
\* not completed or failed, and whose unit of work is enqueued or executing.
C29_FileHasLiveJob ==
    \A id \in Ids :
        store[id].exists
           => /\ rec[id] # NoRec
              /\ rec[id].status \notin Terminal
              /\ EnqueuedOrExecuting(id)

\* The record Celery holds for the job's unit of work.
Reported(id) == backend[CeleryIdOf(id)]

\* C27: during one execution every progress report has total 100 and a
\* current value above the last one, out of 20, 40, 80, 100; 40 is reported
\* with the file read, 80 with the analysis returned, and the worker goes on
\* to report 100 only with the completed status committed.
C27_MilestonesInOrder ==
    [][\A id \in Ids :
          /\ (Reported(id)' # Reported(id) /\ task'[id].pc # "done")
                => /\ Reported(id)'.total = 100
                   /\ Reported(id)'.current \in {20, 40, 80, 100}
                   /\ Reported(id)'.current > Reported(id).current
                   /\ Reported(id)'.current = 40 => task'[id].file_content # NoFile
                   /\ Reported(id)'.current = 80 => task'[id].result # NoResult
                   /\ Reported(id)'.current = 100 => task[id].pc = "notify"
          /\ (task[id].pc = "save" /\ task'[id].pc = "notify")
                => (rec'[id] # NoRec /\ rec'[id].status = "completed")]_vars

\* C23: corrected: when _extract_pdf_text exits (normal return, a document
\* that does not open, a page that fails, a failed write), the temporary
\* file does not exist, unless the os.remove of the finally block raised.
C23_TempGoneUnlessRemoveFails ==
    [][\A t \in Threads, ok \in BOOLEAN :
          ExtractFinally(t, ok) => (~extraction'.temp.exists \/ ~ok)]_vars

\* C23 as stated: the temporary file does not exist after _extract_pdf_text
\* exits, on every exit path.
C23_TempGoneAtExit ==
    [][\A t \in Threads, ok \in BOOLEAN :
          ExtractFinally(t, ok) => ~extraction'.temp.exists]_vars

\* An extraction of a document that does not open has exited with the
\* reader's error, and the temporary file it wrote is gone.
C23_Witness ==
    \E t \in DOMAIN extraction.th :
        /\ extraction.th[t].pc = "exited"
        /\ extraction.th[t].got = File(CorruptDoc)
        /\ extraction.th[t].out.error = "PdfReadError"
        /\ ~extraction.temp.exists
        /\ \A o \in DOMAIN extraction.th : o # t => extraction.th[o].pc = "write"

\* C30: an extraction that has passed its read parsed the bytes it wrote
\* itself: not another extraction's bytes, and not a file that another
\* extraction had removed.
C30_ReadsOwnBytes ==
    \A t \in DOMAIN extraction.th :
        (extraction.th[t].pc \in {"finally", "exited"} /\ extraction.th[t].out.error # "OSError")
           => extraction.th[t].got = File(extraction.th[t].doc)

\* What the polling client may not change: everything but its own state.
ServerState ==
    <<nextId, store, rec, queue, task, backend, fast, financial_metrics_table>>

\* C21: poll_for_results makes at most max_attempts queries, returns
\* "completed" or "failed" only on a query that showed that status and
\* "timed out" only after max_attempts queries, it always returns, its steps
\* change nothing of the job, and the job it polled reaches a terminal row
\* (or is deleted) whether or not the client still polls.
C21_PollReturnsAndJobRunsOn ==
    /\ [](poll # NoPoll => poll.attempt <= MaxAttempts)
    /\ [][PollStep => UNCHANGED ServerState]_vars
    /\ [][(poll # NoPoll /\ poll' # poll) =>
             /\ poll'.outcome = "completed"
                   => (rec[poll.task_id] # NoRec /\ rec[poll.task_id].status = "completed")
             /\ poll'.outcome = "failed"
                   => (rec[poll.task_id] # NoRec /\ rec[poll.task_id].status = "failed")
             /\ poll'.outcome = "timed out" => poll.attempt = MaxAttempts]_vars
    /\ (poll.state = "polling") ~> (poll.state = "returned")
    /\ \A id \in Ids :
          (poll.state = "returned" /\ poll.task_id = id)
             ~> (rec[id] = NoRec \/ rec[id].status \in Terminal)
====
